---- MODULE Spec2Model ----
(***************************************************************************)
(* A model of genetic_algo.py: the knapsack fitness function, fitness      *)
(* proportionate selection, single point crossover, in-place mutation and  *)
(* the generational driver run_evolution.                                  *)
(*                                                                         *)
(* Genomes are Python lists, i.e. mutable objects.  The driver's state     *)
(* therefore has a heap (object id -> list of bits) and the populations    *)
(* are sequences of object ids, so that two slots holding the same list    *)
(* and an in-place mutation seen through both are representable.           *)
(***************************************************************************)
EXTENDS Integers, Sequences, FiniteSets

VARIABLES
    pc,               \* position of run_evolution / which pure function is exercised
    things,           \* the catalog bound into fitness_func (sequence of Thing)
    weight_limit,     \* the weight limit bound into fitness_func
    fitness_limit,    \* run_evolution's fitness_limit
    generation_limit, \* run_evolution's generation_limit
    heap,             \* object id -> genome (the list objects that are alive)
    population,       \* sequence of object ids
    next_generation,  \* sequence of object ids
    i,                \* the loop variable of line 136 (-1: not yet bound)
    j,                \* the loop variable of line 149
    preSort,          \* history: the population handed to the last sorted() call
    bestHist,         \* history: best fitness found by each sort of line 137
    initial,          \* history: populate_func's result, kept during the first iteration
    size0,            \* history: len(populate_func())
    breeds,           \* history: number of executions of lines 150-154
    advances,         \* history: number of executions of line 156
    call,             \* pure-function specifications: the arguments
    ret               \* pure-function specifications: the result so far

vars == <<pc, things, weight_limit, fitness_limit, generation_limit, heap,
          population, next_generation, i, j, preSort, bestHist, initial,
          size0, breeds, advances, call, ret>>

\* what run_evolution never assigns
config == <<things, weight_limit, fitness_limit, generation_limit, size0,
            call, ret>>

-----------------------------------------------------------------------------
(* Bounds of the model.                                                    *)

\* a population holds at most MaxBits bits: len(population) * genome length
MaxBits == 8
\* genomes of a run have 1..MaxGenomeLen bits
MaxGenomeLen == 3
\* populate_func returns 1..MaxPop genomes
MaxPop == 4
\* generation_limit ranges over 0..MaxGen
MaxGen == 2
\* fitness_limit ranges over 1..MaxFitnessLimit
MaxFitnessLimit == 3
\* values, weights and weight limits of the catalogs range over 0..MaxUnit
MaxUnit == 2
\* genome length in the specifications of the pure functions
MaxLen == 2
\* mutation's num ranges over 0..MaxNum
MaxNum == 2
\* random() is one of 0, 1/(2*HalfSteps), ..., (2*HalfSteps-1)/(2*HalfSteps)
HalfSteps == 2

-----------------------------------------------------------------------------
(* Values.                                                                 *)

\* what ret holds before the function returns or raises
NoResult == [kind |-> "none"]

Returned(v) == [kind |-> "return", value |-> v]

Raised(e) == [kind |-> "raise", error |-> e]

Bits == {0, 1}

Genomes(L) == [1..L -> Bits]

Thing(value, weight) == [value |-> value, weight |-> weight]

\* the catalog of a run with genomes of length L: item k has value k, weight k
SampleThings(L) == [k \in 1..L |-> Thing(k, k)]

\* the weight limit of that run: every item fits alone, and for L > 1 not
\* all of them together
SampleLimit(L) == L

Abs(x) == IF x < 0 THEN -x ELSE x

RECURSIVE SumSeq(_)
SumSeq(s) == IF s = <<>> THEN 0 ELSE s[1] + SumSeq(Tail(s))

-----------------------------------------------------------------------------
(* fitness, lines 51-66.                                                   *)

\* a slip: a knapsack filled exactly to the limit counts as overweight
Overweight_AtLimit(weight, limit) == weight >= limit

\* the comparison of line 63
Overweight(weight, limit) == weight > limit

RECURSIVE fitness_loop(_, _, _, _, _, _)
fitness_loop(genome, cat, limit, k, weight, value) ==
    IF k > Len(cat) THEN value
    ELSE IF genome[k] = 1
         THEN IF Overweight(weight + cat[k].weight, limit)
              THEN 0
              ELSE fitness_loop(genome, cat, limit, k + 1,
                                weight + cat[k].weight, value + cat[k].value)
         ELSE fitness_loop(genome, cat, limit, k + 1, weight, value)

fitness(genome, cat, limit) == fitness_loop(genome, cat, limit, 1, 0, 0)

\* fitness_func = partial(fitness, things=..., weight_limit=...), lines 178-180
fitness_func(genome) == fitness(genome, things, weight_limit)

-----------------------------------------------------------------------------
(* sorted(population, key=fitness_func, reverse=True), lines 137-141.      *)
(* Python's sort is stable, also with reverse=True.                        *)

\* a slip: an unstable sort, x goes before the elements of its own rank
InsertAt_BeforeEquals(s, x, key) ==
    IF \E k \in 1..Len(s) : key[s[k]] <= key[x]
    THEN CHOOSE k \in 1..Len(s) :
            /\ key[s[k]] <= key[x]
            /\ \A m \in 1..(k - 1) : key[s[m]] > key[x]
    ELSE Len(s) + 1

\* where x goes in the sorted prefix s: after every element that does not
\* rank below it
InsertAt(s, x, key) ==
    IF \E k \in 1..Len(s) : key[s[k]] < key[x]
    THEN CHOOSE k \in 1..Len(s) :
            /\ key[s[k]] < key[x]
            /\ \A m \in 1..(k - 1) : key[s[m]] >= key[x]
    ELSE Len(s) + 1

Insert(s, x, key) ==
    LET at == InsertAt(s, x, key)
    IN  SubSeq(s, 1, at - 1) \o <<x>> \o SubSeq(s, at, Len(s))

RECURSIVE sorted_from(_, _, _)
sorted_from(done, rest, key) ==
    IF rest = <<>> THEN done
    ELSE sorted_from(Insert(done, rest[1], key), Tail(rest), key)

\* the key of every object of the heap h
KeyOf(h) == [id \in DOMAIN h |-> fitness_func(h[id])]

sorted(pop, h) == sorted_from(<<>>, pop, KeyOf(h))

-----------------------------------------------------------------------------
(* selection_pair, lines 78-83: random.choices(population, weights, k=2).  *)

Weights(pop, h) == [k \in 1..Len(pop) |-> fitness_func(h[pop[k]])]

\* choices() raises ValueError when the weights sum to zero (Python >= 3.9:
\* "Total of weights must be greater than zero")
ChoicesRaises(w) == SumSeq(w) = 0

\* the slots one draw can return: bisect over the cumulative weights never
\* lands on a slot of weight zero
Drawable(w) == {k \in 1..Len(w) : w[k] > 0}

\* the two draws are independent, with replacement
selection_pair(w) == Drawable(w) \X Drawable(w)

-----------------------------------------------------------------------------
(* single_point_crossover, lines 90-99.                                    *)

\* a slip: randint(0, length), the cut may take nothing or everything
CutPoints_FromZero(length) == 0..length

\* randint(1, length - 1), line 98
CutPoints(length) == 1..(length - 1)

\* line 96: the parents themselves are returned
ReturnsParents(a) == Len(a) < 2

\* line 99: a[0:p] + b[p:]
Splice(a, b, p) == SubSeq(a, 1, p) \o SubSeq(b, p + 1, Len(b))

single_point_crossover(a, b, p) ==
    IF ReturnsParents(a) THEN <<a, b>>
    ELSE <<Splice(a, b, p), Splice(b, a, p)>>

-----------------------------------------------------------------------------
(* mutation, lines 107-112.                                                *)

\* random() in units of 1/(2*HalfSteps); 1.0 is never drawn
Draws == 0..(2 * HalfSteps - 1)

\* probabilities in the same units: 0, 0.5 and 1
Certain == 2 * HalfSteps

Probabilities == {0, HalfSteps, Certain}

\* the default probability 0.5 of line 107
DefaultProbability == HalfSteps

\* a slip: the bit is kept if random() >= probability
Flips_Strict(draw, probability) == ~(draw >= probability)

\* line 110: the bit is kept if random() > probability, flipped otherwise
Flips(draw, probability) == ~(draw > probability)

\* the outcomes of the test of line 110 over all draws
FlipOutcomes(probability) == {Flips(draw, probability) : draw \in Draws}

\* one execution of line 110 at the drawn index
mutation_attempt(genome, index, flip) ==
    [genome EXCEPT ![index] = IF flip THEN Abs(@ - 1) ELSE @]

-----------------------------------------------------------------------------
(* run_evolution, lines 125-164.                                           *)

\* a slip: the two elites are not allowed for
BreedCount_NoElites(pop) == Len(pop) \div 2

\* range(int(len(population)/2) - 1), line 149
BreedCount(pop) == (Len(pop) \div 2) - 1

\* population[0:2], line 146
Elites(pop) == SubSeq(pop, 1, IF Len(pop) < 2 THEN Len(pop) ELSE 2)

BestFitness(pop, h) == fitness_func(h[pop[1]])

\* a slip: the limit itself does not stop the run
LimitReached_Strict(best, limit) == best > limit

\* the test of line 143
LimitReached(best, limit) == best >= limit

\* a slip: the count of iterations instead of the last index
LoopVarAfterLoop_Count(last) == last + 1

\* the value i keeps when range(generation_limit) is exhausted, line 136
LoopVarAfterLoop(last) == last

\* the distinct ids of s in the order of their first occurrence
RECURSIVE Uniq(_)
Uniq(s) ==
    IF s = <<>> THEN <<>>
    ELSE LET r == Uniq(SubSeq(s, 1, Len(s) - 1))
             x == s[Len(s)]
         IN  IF \E k \in 1..Len(r) : r[k] = x THEN r ELSE Append(r, x)

IndexIn(s, x) == CHOOSE k \in 1..Len(s) : s[k] = x

\* line 156 drops the last reference to the old population: the objects
\* that stay alive are those of next_generation, renumbered from 1
LiveHeap(ng, h) == [k \in 1..Len(Uniq(ng)) |-> h[Uniq(ng)[k]]]

LivePopulation(ng) == [k \in 1..Len(ng) |-> IndexIn(Uniq(ng), ng[k])]

\* the sequence s of objects alive in ng, under the numbering of LiveHeap
RenumberedBy(ng, s) == [k \in 1..Len(s) |-> IndexIn(Uniq(ng), s[k])]

Shapes ==
    {s \in (1..MaxPop) \X (1..MaxGenomeLen) : s[1] * s[2] <= MaxBits}

\* line 134: populate_func() returned n distinct list objects of length L
Init ==
    /\ pc = "loop"
    /\ \E s \in Shapes :
          /\ things = SampleThings(s[2])
          /\ population = [k \in 1..s[1] |-> k]
          /\ heap \in [1..s[1] -> Genomes(s[2])]
          /\ size0 = s[1]
    /\ weight_limit = SampleLimit(Len(things))
    /\ fitness_limit \in 1..MaxFitnessLimit
    /\ generation_limit \in 0..MaxGen
    /\ initial = [k \in 1..Len(population) |-> heap[population[k]]]
    /\ next_generation = <<>>
    /\ i = -1
    /\ j = 0
    /\ preSort = <<>>
    /\ bestHist = <<>>
    /\ breeds = 0
    /\ advances = 0
    /\ call = [fn |-> "run_evolution"]
    /\ ret = NoResult

\* lines 136-146: the next iteration starts; sort, test the limit, and
\* either break or seed next_generation with the elites
Evaluate ==
    /\ pc = "loop"
    /\ i + 1 < generation_limit
    /\ i' = i + 1
    /\ preSort' = RenumberedBy(sorted(population, heap), population)
    /\ population' = LivePopulation(sorted(population, heap))
    /\ heap' = LiveHeap(sorted(population, heap), heap)
    /\ bestHist' = Append(bestHist, BestFitness(population', heap'))
    /\ IF LimitReached(BestFitness(population', heap'), fitness_limit)
       THEN /\ pc' = "final"
            /\ UNCHANGED <<next_generation, j>>
       ELSE /\ pc' = "breed"
            /\ next_generation' = Elites(population')
            /\ j' = 0
    /\ UNCHANGED <<config, initial, breeds, advances>>

\* lines 150-154 when selection_func returns: one pair of offspring
Breed ==
    /\ pc = "breed"
    /\ j < BreedCount(population)
    /\ \E parents \in selection_pair(Weights(population, heap)) :
       \E p \in (IF ReturnsParents(heap[population[1]]) THEN {0}
                 ELSE CutPoints(Len(heap[population[1]]))) :
       \E ia, ib \in 1..Len(heap[population[1]]) :
       \E fa, fb \in FlipOutcomes(DefaultProbability) :
          LET pa == population[parents[1]]
              pb == population[parents[2]]
              alias == ReturnsParents(heap[pa])
              kids == single_point_crossover(heap[pa], heap[pb], p)
              \* objects of the two offspring
              oa == IF alias THEN pa ELSE Len(heap) + 1
              ob == IF alias THEN pb ELSE Len(heap) + 2
              h0 == IF alias THEN heap ELSE heap \o kids
              h1 == [h0 EXCEPT ![oa] =
                        mutation_attempt(@, ia, fa)]
              h2 == [h1 EXCEPT ![ob] =
                        mutation_attempt(@, ib, fb)]
          IN  /\ heap' = h2
              /\ next_generation' = next_generation \o <<oa, ob>>
    /\ j' = j + 1
    /\ breeds' = breeds + 1
    /\ UNCHANGED <<config, pc, population, i, preSort, bestHist, initial,
                   advances>>

\* line 150 when random.choices raises ValueError: run_evolution is left
SelectionRaises ==
    /\ pc = "breed"
    /\ j < BreedCount(population)
    /\ ChoicesRaises(Weights(population, heap))
    /\ pc' = "raised"
    /\ UNCHANGED <<config, heap, population, next_generation, i, j, preSort,
                   bestHist, initial, breeds, advances>>

\* line 156, after the inner loop
Advance ==
    /\ pc = "breed"
    /\ j >= BreedCount(population)
    /\ population' = LivePopulation(next_generation)
    /\ heap' = LiveHeap(next_generation, heap)
    /\ next_generation' = <<>>
    /\ preSort' = <<>>
    /\ initial' = <<>>
    /\ advances' = advances + 1
    /\ pc' = "loop"
    /\ UNCHANGED <<config, i, j, bestHist, breeds>>

\* line 136 when range(generation_limit) is exhausted
Exhaust ==
    /\ pc = "loop"
    /\ ~(i + 1 < generation_limit)
    /\ i' = LoopVarAfterLoop(i)
    /\ pc' = "final"
    /\ UNCHANGED <<config, heap, population, next_generation, j, preSort,
                   bestHist, initial, breeds, advances>>

\* lines 158-164: the final sort and the return; i is unbound when the loop
\* body never ran, and reading it raises UnboundLocalError
Return ==
    /\ pc = "final"
    /\ preSort' = RenumberedBy(sorted(population, heap), population)
    /\ population' = LivePopulation(sorted(population, heap))
    /\ heap' = LiveHeap(sorted(population, heap), heap)
    /\ pc' = IF i = -1 THEN "raised" ELSE "done"
    /\ UNCHANGED <<config, next_generation, i, j, bestHist, initial, breeds,
                   advances>>

Next ==
    \/ Evaluate
    \/ Breed
    \/ SelectionRaises
    \/ Advance
    \/ Exhaust
    \/ Return

Spec == Init /\ [][Next]_vars

-----------------------------------------------------------------------------
(* Properties of run_evolution.                                            *)

FitnessAt(id) == fitness_func(heap[id])

IsNonIncreasing(pop) ==
    \A k \in 1..(Len(pop) - 1) : FitnessAt(pop[k]) >= FitnessAt(pop[k + 1])

HasFitness(f, id) == FitnessAt(id) = f

\* the objects of pop whose fitness is f, in the order of pop
WithFitness(pop, f) ==
    LET keep(id) == HasFitness(f, id) IN SelectSeq(pop, keep)

NoDuplicates(s) == \A a, b \in 1..Len(s) : a # b => s[a] # s[b]

Count(s, x) == Cardinality({k \in 1..Len(s) : s[k] = x})

SetMax(S) == CHOOSE x \in S : \A y \in S : y <= x

SetMin(S) == CHOOSE x \in S : \A y \in S : x <= y

InitialBest == SetMax({fitness_func(initial[k]) : k \in 1..Len(initial)})

\* the generations whose sort found the fitness limit reached
ReachedAt ==
    {g \in 0..(Len(bestHist) - 1) : bestHist[g + 1] >= fitness_limit}

\* C1: the best fitness found by the sort of one generation is never below
\* the best fitness found by the sort of the generation before, and the
\* best fitness of the returned population is not below the last of them.
C1_BestFitnessNeverDecreases ==
    /\ \A g \in 1..(Len(bestHist) - 1) : bestHist[g + 1] >= bestHist[g]
    /\ (pc = "done" /\ bestHist # <<>>) =>
           BestFitness(population, heap) >= bestHist[Len(bestHist)]

\* C2: when the best fitness of populate_func's result is at least
\* fitness_limit and generation_limit >= 1, the run breaks in its first
\* iteration: nothing is bred, the loop variable stays 0, and what is
\* returned is the initial genomes, each as it was, best first.
C2_StopsAtGenerationZero ==
    (/\ initial # <<>>
     /\ InitialBest >= fitness_limit
     /\ generation_limit >= 1
     /\ bestHist # <<>>) =>
        /\ pc \in {"final", "done"}
        /\ i = 0
        /\ breeds = 0
        /\ advances = 0
        /\ pc = "done" =>
              /\ Len(population) = Len(initial)
              /\ \A k \in 1..Len(initial) :
                    Count([m \in 1..Len(population) |-> heap[population[m]]],
                          initial[k]) = Count(initial, initial[k])
              /\ IsNonIncreasing(population)
              /\ fitness_func(heap[population[1]]) = InitialBest

C2_Witness ==
    /\ pc = "done"
    /\ initial # <<>>
    /\ InitialBest >= fitness_limit
    /\ i = 0
    /\ Len(initial) >= 4
    /\ \E k \in 1..Len(initial) : fitness_func(initial[k]) < InitialBest
    /\ fitness_func(initial[1]) < InitialBest

C5_PopulationSize ==
    /\ Len(population) <= size0
    /\ size0 % 2 = 0 => Len(population) = size0
    /\ (size0 % 2 = 1 /\ size0 >= 3) =>
          Len(population) = IF advances = 0 THEN size0 ELSE size0 - 1
    /\ (pc = "breed" /\ j >= BreedCount(population) /\ Len(population) >= 2) =>
          Len(next_generation) = 2 + 2 * ((Len(population) \div 2) - 1)

C5_Witness ==
    /\ pc = "done"
    /\ size0 = 3
    /\ advances = 2
    /\ Len(population) = 2

\* C8: the returned population is in non-increasing order of fitness, and
\* the genomes of any one fitness are in the order they had before the sort.
C8_ReturnedSortedStable ==
    pc = "done" =>
        /\ Len(population) = Len(preSort)
        /\ IsNonIncreasing(population)
        /\ \A k \in 1..Len(preSort) :
              WithFitness(population, FitnessAt(preSort[k]))
                  = WithFitness(preSort, FitnessAt(preSort[k]))

C8_Witness ==
    /\ pc = "done"
    /\ advances = generation_limit
    /\ population # preSort
    /\ \E k \in 1..(Len(population) - 1) :
          /\ FitnessAt(population[k]) = FitnessAt(population[k + 1])
          /\ heap[population[k]] # heap[population[k + 1]]
          /\ FitnessAt(population[1]) > FitnessAt(population[k])

\* C9: no two slots of the population, and no two slots of the generation
\* under construction, hold the same genome object.
C9_NoSharedGenome ==
    /\ NoDuplicates(population)
    /\ NoDuplicates(next_generation)

-----------------------------------------------------------------------------
(* The functions on their own: each specification draws the arguments of   *)
(* one call and applies the function.                                      *)

\* the driver's variables, which these specifications leave alone
driver == <<things, weight_limit, fitness_limit, generation_limit, heap,
            population, next_generation, i, j, preSort, bestHist, initial,
            size0, breeds, advances>>

NoDriver ==
    /\ fitness_limit = 0
    /\ generation_limit = 0
    /\ heap = <<>>
    /\ population = <<>>
    /\ next_generation = <<>>
    /\ i = -1
    /\ j = 0
    /\ preSort = <<>>
    /\ bestHist = <<>>
    /\ initial = <<>>
    /\ size0 = 0
    /\ breeds = 0
    /\ advances = 0

AllGenomes(maxLen) == UNION {Genomes(L) : L \in 0..maxLen}

Catalogs(maxLen) ==
    UNION {[1..L -> {Thing(v, w) : v \in 1..MaxUnit, w \in 0..MaxUnit}] :
           L \in 0..maxLen}

\* the scenario catalog: A worth 10 weighing 10, B worth 20 weighing 10
ScenarioThings == <<Thing(10, 10), Thing(20, 10)>>

ScenarioLimit == ScenarioThings[1].weight

\* ---- fitness ----

FitnessInit ==
    /\ pc = "fitness"
    /\ \/ /\ things \in Catalogs(MaxLen)
          /\ weight_limit \in 0..MaxUnit
       \/ /\ things = ScenarioThings
          /\ weight_limit = ScenarioLimit
    /\ \E g \in Genomes(Len(things)) \cup Genomes(Len(things) + 1) :
          call = [fn |-> "fitness", genome |-> g]
    /\ ret = NoResult
    /\ NoDriver

\* lines 52-53
FitnessRaises ==
    /\ pc = "fitness"
    /\ ret.kind = "none"
    /\ Len(call.genome) # Len(things)
    /\ ret' = Raised("ValueError")
    /\ UNCHANGED <<pc, call, driver>>

\* lines 55-66
FitnessReturns ==
    /\ pc = "fitness"
    /\ ret.kind = "none"
    /\ Len(call.genome) = Len(things)
    /\ ret' = Returned(fitness(call.genome, things, weight_limit))
    /\ UNCHANGED <<pc, call, driver>>

FitnessNext == FitnessRaises \/ FitnessReturns

SpecFitness == FitnessInit /\ [][FitnessNext]_vars

\* the weight of the items selected among the first k
PrefixWeight(genome, cat, k) ==
    SumSeq([m \in 1..k |-> IF genome[m] = 1 THEN cat[m].weight ELSE 0])

SelectedValue(genome, cat) ==
    SumSeq([m \in 1..Len(cat) |-> IF genome[m] = 1 THEN cat[m].value ELSE 0])

Overflows(genome, cat, limit) ==
    \E k \in 1..Len(cat) : PrefixWeight(genome, cat, k) > limit

\* C4: fitness is never negative; it is 0 when the weight of the selected
\* items exceeds the limit at some prefix, and the value of all selected
\* items otherwise, also at a weight equal to the limit; the scenario
\* catalog scores [1,0] 10, [0,1] 20, [1,1] 0 and [0,0] 0 under limit 10.
C4_FitnessStepFunction ==
    (pc = "fitness" /\ ret.kind = "return") =>
        /\ ret.value >= 0
        /\ ret.value = IF Overflows(call.genome, things, weight_limit)
                       THEN 0
                       ELSE SelectedValue(call.genome, things)
        /\ (things = ScenarioThings /\ weight_limit = ScenarioLimit) =>
              /\ call.genome = <<1, 0>> => ret.value = 10
              /\ call.genome = <<0, 1>> => ret.value = 20
              /\ call.genome = <<1, 1>> => ret.value = 0
              /\ call.genome = <<0, 0>> => ret.value = 0

\* a knapsack filled exactly to the limit by two items keeps its value
C4_Witness ==
    /\ pc = "fitness"
    /\ ret.kind = "return"
    /\ Len(things) = 2
    /\ call.genome = <<1, 1>>
    /\ PrefixWeight(call.genome, things, 2) = weight_limit
    /\ PrefixWeight(call.genome, things, 1) < weight_limit
    /\ ret.value = things[1].value + things[2].value

\* ---- single_point_crossover ----

CrossoverInit ==
    /\ pc = "crossover"
    /\ \E a, b \in AllGenomes(MaxLen + 1) :
          call = [fn |-> "single_point_crossover", a |-> a, b |-> b]
    /\ ret = NoResult
    /\ things = <<>>
    /\ weight_limit = 0
    /\ NoDriver

\* lines 91-92
CrossoverRaises ==
    /\ pc = "crossover"
    /\ ret.kind = "none"
    /\ Len(call.a) # Len(call.b)
    /\ ret' = Raised("ValueError")
    /\ UNCHANGED <<pc, call, driver>>

\* lines 94-99; p is 0 where no cut point is drawn
CrossoverReturns ==
    /\ pc = "crossover"
    /\ ret.kind = "none"
    /\ Len(call.a) = Len(call.b)
    /\ \E p \in (IF ReturnsParents(call.a) THEN {0}
                 ELSE CutPoints(Len(call.a))) :
          ret' = [kind |-> "return",
                  value |-> single_point_crossover(call.a, call.b, p),
                  p |-> p,
                  parents |-> ReturnsParents(call.a)]
    /\ UNCHANGED <<pc, call, driver>>

CrossoverNext == CrossoverRaises \/ CrossoverReturns

SpecCrossover == CrossoverInit /\ [][CrossoverNext]_vars

\* C6: both offspring have the parents' length L; for L >= 2 the cut point
\* p is in 1..L-1, offspring A has a's bits up to p and b's after it,
\* offspring B the other way round; for L < 2 the parents are returned;
\* a genome crossed with itself gives two genomes equal to it.
C6_CrossoverSplices ==
    (pc = "crossover" /\ ret.kind = "return") =>
        LET a == call.a
            b == call.b
            L == Len(call.a)
            A == ret.value[1]
            B == ret.value[2]
        IN  /\ Len(A) = L
            /\ Len(B) = L
            /\ L >= 2 =>
                  /\ ret.p \in 1..(L - 1)
                  /\ \A k \in 1..L :
                        /\ A[k] = IF k <= ret.p THEN a[k] ELSE b[k]
                        /\ B[k] = IF k <= ret.p THEN b[k] ELSE a[k]
            /\ L < 2 => (ret.parents /\ A = a /\ B = b)
            /\ a = b => (A = a /\ B = a)

C6_Witness ==
    /\ pc = "crossover"
    /\ ret.kind = "return"
    /\ Len(call.a) = 3
    /\ ret.p = 2
    /\ ret.value[1] # call.a
    /\ ret.value[1] # call.b
    /\ ret.value[2] # call.a
    /\ ret.value[2] # call.b

\* ---- mutation ----

MutationInit ==
    /\ pc = "mutation"
    /\ \E g \in AllGenomes(MaxLen) \ {<<>>} :
       \E num \in 0..MaxNum :
       \E probability \in Probabilities :
          /\ call = [fn |-> "mutation", genome |-> g, num |-> num,
                     probability |-> probability]
          /\ ret = [kind |-> "running", genome |-> g, attempts |-> <<>>]
    /\ things = <<>>
    /\ weight_limit = 0
    /\ NoDriver

\* lines 108-110: one attempt
MutationAttempt ==
    /\ pc = "mutation"
    /\ ret.kind = "running"
    /\ Len(ret.attempts) < call.num
    /\ \E index \in 1..Len(call.genome) :
       \E draw \in Draws :
          ret' = [ret EXCEPT
                    !.genome = mutation_attempt(@, index,
                                                Flips(draw, call.probability)),
                    !.attempts = Append(@, [index |-> index, draw |-> draw])]
    /\ UNCHANGED <<pc, call, driver>>

\* line 112
MutationReturns ==
    /\ pc = "mutation"
    /\ ret.kind = "running"
    /\ Len(ret.attempts) >= call.num
    /\ ret' = [ret EXCEPT !.kind = "return"]
    /\ UNCHANGED <<pc, call, driver>>

MutationNext == MutationAttempt \/ MutationReturns

SpecMutation == MutationInit /\ [][MutationNext]_vars

\* the attempts made at index k
HitsAt(k) == {n \in 1..Len(ret.attempts) : ret.attempts[n].index = k}

\* the attempts made at index k whose draw was exactly 0
ZeroHitsAt(k) == {n \in HitsAt(k) : ret.attempts[n].draw = 0}

Changed == {k \in 1..Len(call.genome) : ret.genome[k] # call.genome[k]}

MutationBounds ==
    /\ Len(ret.attempts) <= call.num
    /\ Cardinality(Changed) <= Len(ret.attempts)
    /\ \A k \in 1..Len(ret.genome) : ret.genome[k] \in Bits
    /\ Len(ret.genome) = Len(call.genome)

CertainFlipsEveryAttempt ==
    call.probability = Certain =>
        \A k \in 1..Len(call.genome) :
            ret.genome[k] = (call.genome[k] + Cardinality(HitsAt(k))) % 2

\* C7 as stated: with probability 0 no bit is ever flipped, whatever is
\* drawn; with probability 1 every attempt flips its bit (two attempts at
\* one index restore it); at most num positions differ and bits stay bits.
C7_ZeroNeverFlips ==
    pc = "mutation" =>
        /\ call.probability = 0 => ret.genome = call.genome
        /\ CertainFlipsEveryAttempt
        /\ MutationBounds

\* C7 amended: with probability 0 an attempt flips its bit exactly when the
\* draw is 0; with probability 1 every attempt flips its bit; at most num
\* positions differ and bits stay bits.
C7_ZeroFlipsOnlyOnZeroDraw ==
    pc = "mutation" =>
        /\ call.probability = 0 =>
              \A k \in 1..Len(call.genome) :
                  ret.genome[k]
                      = (call.genome[k] + Cardinality(ZeroHitsAt(k))) % 2
        /\ CertainFlipsEveryAttempt
        /\ MutationBounds

C7_Witness ==
    /\ pc = "mutation"
    /\ ret.kind = "return"
    /\ call.probability = 0
    /\ call.num = 2
    /\ ret.attempts[1].draw = 0
    /\ ret.attempts[2].draw > 0
    /\ ret.attempts[1].index = ret.attempts[2].index
    /\ ret.genome # call.genome

\* ---- selection_pair ----

SelectionInit ==
    /\ pc = "selection"
    /\ \E L \in 1..MaxLen :
       \E n \in 1..MaxPop :
          /\ things = SampleThings(L)
          /\ weight_limit = SampleLimit(L)
          /\ \E pop \in [1..n -> Genomes(L)] :
                call = [fn |-> "selection_pair", population |-> pop]
    /\ ret = NoResult
    /\ NoDriver

CallWeights ==
    [k \in 1..Len(call.population) |-> fitness_func(call.population[k])]

\* lines 79-83 when choices returns: the slots of the two genomes drawn
SelectionReturns ==
    /\ pc = "selection"
    /\ ret.kind = "none"
    /\ \E pair \in selection_pair(CallWeights) : ret' = Returned(pair)
    /\ UNCHANGED <<pc, call, driver>>

\* lines 79-83 when choices raises
SelectionFails ==
    /\ pc = "selection"
    /\ ret.kind = "none"
    /\ ChoicesRaises(CallWeights)
    /\ ret' = Raised("ValueError")
    /\ UNCHANGED <<pc, call, driver>>

SelectionNext == SelectionReturns \/ SelectionFails

SpecSelection == SelectionInit /\ [][SelectionNext]_vars

Slots == 1..Len(call.population)

Positive == {k \in Slots : CallWeights[k] > 0}

\* C10: the call always returns two members of the population, possibly one
\* member twice; a member of fitness 0 is drawn only when every fitness is
\* 0, and then the call still returns and any member can be drawn; when
\* one member alone has a fitness above 0, both places hold it.
C10_SelectionAlwaysReturns ==
    (pc = "selection" /\ ret.kind # "none") =>
        /\ ret.kind = "return"
        /\ ret.value[1] \in Slots
        /\ ret.value[2] \in Slots
        /\ (\E n \in 1..2 : ret.value[n] \notin Positive) => Positive = {}
        /\ Positive = {} => selection_pair(CallWeights) = Slots \X Slots
        /\ \A k \in Slots : Positive = {k} => ret.value = <<k, k>>

====
